---- MODULE Spec2Model ----
(***************************************************************************)
(* Model of glucose_data/data_gen.py: the straight-line generator of the   *)
(* synthetic glucose dataset.  One run of the script is a process whose    *)
(* position is the statement it is about to execute; its state is the      *)
(* numpy generator, the dict under construction, the DataFrame, the open   *)
(* file handle, the bytes of glucose_data.csv and the bytes on stdout.     *)
(*                                                                         *)
(* Representation.                                                         *)
(*   - text (file content, stdout, CSV fields) is a TLA+ string;           *)
(*   - a datetime is a record of its civil fields;                         *)
(*   - a float64 is an integer count of thousandths (110025 is 110.025),   *)
(*     fine enough to tell two decimals from three and to hit rounding     *)
(*     ties;                                                               *)
(*   - numpy's global generator is a state [key, pos]: every output is a   *)
(*     function of the state alone, seeding replaces the key read from OS  *)
(*     entropy at import, and a draw of n values advances pos by n.  The   *)
(*     Mersenne Twister's output function is replaced by a small mixing    *)
(*     function (Stream).                                                  *)
(***************************************************************************)
EXTENDS Integers, Sequences, FiniteSets, TLC

(* ------------------------------ bounds -------------------------------- *)

\* Small configurations run with n_records in 0..MaxRecords.
MaxRecords == 3
\* Seeds other than the script's own: 0..MaxAltSeed.
MaxAltSeed == 1
\* Keys the generator may hold from OS entropy when it is never seeded.
MaxEntropy == 1

(* ------------------------- program constants -------------------------- *)

SEED == 42
N_RECORDS == 1000
STEP_MINUTES == 30
MEAN == 110
STD == 25
DECIMALS == 2

start_date ==
  [year |-> 2026, month |-> 1, day |-> 1, hour |-> 0, minute |-> 0, second |-> 0]

PATIENT_LABELS == <<"P001", "P002", "P003">>
MEAL_LABELS == <<"Fasting", "Post-prandial", "Before sleep">>

CSV_PATH == "glucose_data.csv"
NOTICE == "¡Archivo glucose_data.csv generado con éxito!"

\* os.linesep of the platform; to_csv and print end every line with it.
LINESEP == "\n"

\* The module body with print moved above to_csv.
ProgramPrintFirst ==
  << "seed", "timestamp", "patient_id", "glucose_level", "meal_context",
     "DataFrame", "print", "to_csv" >>

\* The module body with the seeding moved below the first draw.
ProgramSeedLate ==
  << "timestamp", "patient_id", "seed", "glucose_level", "meal_context",
     "DataFrame", "to_csv", "print" >>

\* The statements of the module body, in source order.
Program ==
  << "seed", "timestamp", "patient_id", "glucose_level", "meal_context",
     "DataFrame", "to_csv", "print" >>

(* --------------------------- datetime ---------------------------------- *)

IsLeap(y) == (y % 4 = 0 /\ y % 100 # 0) \/ y % 400 = 0

DaysInMonth(y, m) ==
  IF m = 2 THEN (IF IsLeap(y) THEN 29 ELSE 28)
  ELSE IF m \in {4, 6, 9, 11} THEN 30 ELSE 31

\* The date `days` days after the first of month m of year y.
RECURSIVE DateFrom(_, _, _)
DateFrom(y, m, days) ==
  IF days < DaysInMonth(y, m)
  THEN [year |-> y, month |-> m, day |-> days + 1]
  ELSE IF m = 12 THEN DateFrom(y + 1, 1, days - DaysInMonth(y, m))
       ELSE DateFrom(y, m + 1, days - DaysInMonth(y, m))

\* datetime + timedelta(minutes = mins), mins >= 0.
DatetimeAdd(dt, mins) ==
  LET total == dt.hour * 60 + dt.minute + mins
      d     == DateFrom(dt.year, dt.month, (dt.day - 1) + total \div 1440)
      rest  == total % 1440
  IN  [year |-> d.year, month |-> d.month, day |-> d.day,
       hour |-> rest \div 60, minute |-> rest % 60, second |-> dt.second]

\* The column built over range(1, n + 1).
TimestampColumnFromOne(n) ==
  [k \in 1..n |-> DatetimeAdd(start_date, STEP_MINUTES * k)]

\* The column built with a step of minutes=60*i.
TimestampColumnHourly(n) ==
  [k \in 1..n |-> DatetimeAdd(start_date, 60 * (k - 1))]

\* [start_date + timedelta(minutes=30*i) for i in range(n)]
TimestampColumn(n) ==
  [k \in 1..n |-> DatetimeAdd(start_date, STEP_MINUTES * (k - 1))]

(* ----------------------- the random generator -------------------------- *)

\* The generator's output at position p under key `key`.
Stream(key, p) == (key * key + 3 * key * p + 5 * p * p + 7 * p + key) % 101

\* A seeding that leaves the generator as it was.
ReseedIgnored(g, s) == g

\* np.random.seed(s) on generator g: the state is replaced whole.
Reseed(g, s) == [key |-> s, pos |-> 0]

\* np.random.choice(labels, n): n labels drawn with replacement.
Choice(g, labels, n) ==
  [k \in 1..n |-> labels[1 + (Stream(g.key, g.pos + k) % Len(labels))]]

\* Standard normal deviates the generator may return, in thousandths.
Deviates ==
  << 0, 1, 2, 3, 4, 40, -600, 1116, 2000, -4400, -4401, -4440, 813, -77 >>

\* np.random.normal(mean, std, n): mean + std * z, in thousandths.
Normal(g, mean, std, n) ==
  [k \in 1..n |->
     mean * 1000 + std * Deviates[1 + (Stream(g.key, g.pos + k) % Len(Deviates))]]

Advance(g, n) == [g EXCEPT !.pos = g.pos + n]

\* ndarray.round(decimals) of one value: to the nearest multiple of
\* 10^-decimals, ties to the even multiple (numpy rounds with rint).
RoundValue(x, decimals) ==
  LET unit == IF decimals = 0 THEN 1000
              ELSE IF decimals = 1 THEN 100
              ELSE IF decimals = 2 THEN 10 ELSE 1
      q    == x \div unit
      r    == x % unit
  IN  IF 2 * r < unit THEN q * unit
      ELSE IF 2 * r > unit THEN (q + 1) * unit
      ELSE IF q % 2 = 0 THEN q * unit ELSE (q + 1) * unit

Round(xs, decimals) == [k \in DOMAIN xs |-> RoundValue(xs[k], decimals)]

\* The column without its .round(2).
GlucoseColumnUnrounded(g, n) == Normal(g, MEAN, STD, n)

\* np.random.normal(110, 25, n_records).round(2)
GlucoseColumn(g, n) == Round(Normal(g, MEAN, STD, n), DECIMALS)

\* np.random.choice(['P001', 'P002', 'P003'], n_records)
PatientColumn(g, n) == Choice(g, PATIENT_LABELS, n)

\* The column drawn from the patient labels.
MealColumnFromPatients(g, n) == Choice(g, PATIENT_LABELS, n)

\* np.random.choice(['Fasting', 'Post-prandial', 'Before sleep'], n_records)
MealColumn(g, n) == Choice(g, MEAL_LABELS, n)

(* ------------------------ DataFrame and to_csv ------------------------- *)

\* The dtype pandas infers for a column from the kind of its elements.
DtypeOf(kind) ==
  IF kind = "datetime" THEN "datetime64[ns]"
  ELSE IF kind = "float" THEN "float64" ELSE "object"

NoFrame == [columns |-> << >>, nrows |-> 0]

\* pd.DataFrame(data): one column per dict entry, in insertion order, under a
\* RangeIndex 0..nrows-1.
DataFrame(d) ==
  [columns |-> [c \in DOMAIN d |->
                  [name |-> d[c].key, dtype |-> DtypeOf(d[c].kind),
                   values |-> d[c].values]],
   nrows   |-> IF d = << >> THEN 0 ELSE Len(d[1].values)]

Pad2(n) == IF n < 10 THEN "0" \o ToString(n) ELSE ToString(n)

\* pandas writes a datetime64 column without a date_format as dates alone
\* when no value of the column has a time of day, else as date, one space,
\* time.
IsDatesOnly(values) ==
  \A k \in DOMAIN values :
    values[k].hour = 0 /\ values[k].minute = 0 /\ values[k].second = 0

FormatDatetime(dt, datesOnly) ==
  LET date == ToString(dt.year) \o "-" \o Pad2(dt.month) \o "-" \o Pad2(dt.day)
  IN  IF datesOnly THEN date
      ELSE date \o " " \o Pad2(dt.hour) \o ":" \o Pad2(dt.minute)
                \o ":" \o Pad2(dt.second)

\* A float64 is written as its shortest decimal that reads back the same:
\* trailing zeros of the fraction are dropped, one fraction digit is kept.
FormatFloat(x) ==
  LET a    == IF x < 0 THEN 0 - x ELSE x
      f    == a % 1000
      frac == IF f % 100 = 0 THEN ToString(f \div 100)
              ELSE IF f % 10 = 0 THEN Pad2(f \div 10)
              ELSE (IF f < 100 THEN "0" ELSE "") \o Pad2(f)
  IN  (IF x < 0 THEN "-" ELSE "") \o ToString(a \div 1000) \o "." \o frac

\* The text of row i (1-based) of a column.
FormatCell(col, i) ==
  IF col.dtype = "datetime64[ns]"
  THEN FormatDatetime(col.values[i], IsDatesOnly(col.values))
  ELSE IF col.dtype = "float64" THEN FormatFloat(col.values[i])
  ELSE col.values[i]

RECURSIVE Join(_, _)
Join(fields, sep) ==
  IF fields = << >> THEN ""
  ELSE IF Len(fields) = 1 THEN fields[1]
  ELSE fields[1] \o sep \o Join(Tail(fields), sep)

\* Line k of the CSV text of frame, k = 0 the header, k >= 1 row k-1; with
\* index = TRUE the RangeIndex is the first, unnamed, column.
CsvLine(frame, k, index) ==
  LET cells == [c \in DOMAIN frame.columns |->
                  IF k = 0 THEN frame.columns[c].name
                  ELSE FormatCell(frame.columns[c], k)]
      lead  == IF ~index THEN << >>
               ELSE IF k = 0 THEN << "" >> ELSE << ToString(k - 1) >>
  IN  Join(lead \o cells, ",") \o LINESEP

\* The text of rows lo..hi, in row order.
RECURSIVE CsvRows(_, _, _, _)
CsvRows(frame, lo, hi, index) ==
  IF lo > hi THEN ""
  ELSE IF lo = hi THEN CsvLine(frame, lo, index)
  ELSE LET mid == (lo + hi) \div 2
       IN  CsvRows(frame, lo, mid, index) \o CsvRows(frame, mid + 1, hi, index)

\* DataFrame.to_csv's text: the header line if asked for, then every row.
CsvText(frame, index, header) ==
  (IF header THEN CsvLine(frame, 0, index) ELSE "")
    \o CsvRows(frame, 1, frame.nrows, index)

\* to_csv with header=False.
ToCsvTextNoHeader(frame) == CsvText(frame, FALSE, FALSE)

\* to_csv without index=False.
ToCsvTextWithIndex(frame) == CsvText(frame, TRUE, TRUE)

\* df.to_csv('glucose_data.csv', index=False): header is left at its
\* default, True.
ToCsvText(frame) == CsvText(frame, FALSE, TRUE)

\* The handle buffers what to_csv writes and passes it to the file in
\* pieces of at most this many characters (io.DEFAULT_BUFFER_SIZE).
BUFFER_SIZE == 8192

Min(a, b) == IF a < b THEN a ELSE b

(* ------------------------------ state ---------------------------------- *)

VARIABLES
  seed,       \* the configured seed
  n_records,  \* the configured number of rows
  pc,         \* per run: the statement about to execute, "exit" or "aborted"
  rng,        \* per run: numpy's global generator
  rnglog,     \* per run: the calls made on the generator, in order
  data,       \* per run: the entries of the dict literal evaluated so far
  df,         \* per run: the DataFrame, NoFrame until it is built
  handle,     \* per run: "closed" or "open", the handle to_csv holds
  cursor,     \* per run: characters of the text the handle has flushed
  exists,     \* per run: whether glucose_data.csv exists
  file,       \* per run: the bytes of glucose_data.csv
  stdout,     \* per run: the bytes written to standard output
  fault       \* per run: the exception raised and not caught, or "none"

vars ==
  << seed, n_records, pc, rng, rnglog, data, df, handle, cursor, exists,
     file, stdout, fault >>

\* The runs a specification may start, and those it started.
RunIds == {1, 2}

Runs == DOMAIN pc

\* The statement after s in source order; "exit" after the last.
Following(s) ==
  LET i == CHOOSE k \in 1..Len(Program) : Program[k] = s
  IN  IF i = Len(Program) THEN "exit" ELSE Program[i + 1]

Seeds == {SEED} \cup (0..MaxAltSeed)

EntropyKeys == {SEED + 100 + e : e \in 0..MaxEntropy}

\* What a previous, unrelated run may have left at the path.
Stale == "timestamp,value" \o LINESEP \o "old,1" \o LINESEP

SmallConfigs == [seed : Seeds, n : 0..MaxRecords]

ScriptConfig == [seed |-> SEED, n |-> N_RECORDS]

InitWith(R, configs) ==
  /\ \E c \in configs : seed = c.seed /\ n_records = c.n
  /\ pc = [r \in R |-> Program[1]]
  /\ rng \in [R -> {[key |-> k, pos |-> 0] : k \in EntropyKeys}]
  /\ rnglog = [r \in R |-> << >>]
  /\ data = [r \in R |-> << >>]
  /\ df = [r \in R |-> NoFrame]
  /\ handle = [r \in R |-> "closed"]
  /\ cursor = [r \in R |-> 0]
  /\ exists \in [R -> BOOLEAN]
  /\ file = [r \in R |-> IF exists[r] THEN Stale ELSE ""]
  /\ stdout = [r \in R |-> ""]
  /\ fault = [r \in R |-> "none"]

(* ------------------------------ actions -------------------------------- *)

\* line 6: np.random.seed(42)
Seed(r) ==
  /\ r \in Runs
  /\ pc[r] = "seed"
  /\ rng' = [rng EXCEPT ![r] = Reseed(@, seed)]
  /\ rnglog' = [rnglog EXCEPT ![r] = Append(@, "seed")]
  /\ pc' = [pc EXCEPT ![r] = Following("seed")]
  /\ UNCHANGED << seed, n_records, data, df, handle, cursor, exists, file, stdout, fault >>

\* line 12: the 'timestamp' entry of the dict literal
BuildTimestamp(r) ==
  /\ r \in Runs
  /\ pc[r] = "timestamp"
  /\ data' = [data EXCEPT ![r] =
                Append(@, [key |-> "timestamp", kind |-> "datetime",
                           values |-> TimestampColumn(n_records)])]
  /\ pc' = [pc EXCEPT ![r] = Following("timestamp")]
  /\ UNCHANGED << seed, n_records, rng, rnglog, df, handle, cursor, exists, file, stdout, fault >>

\* line 13: the 'patient_id' entry
DrawPatient(r) ==
  /\ r \in Runs
  /\ pc[r] = "patient_id"
  /\ data' = [data EXCEPT ![r] =
                Append(@, [key |-> "patient_id", kind |-> "str",
                           values |-> PatientColumn(rng[r], n_records)])]
  /\ rng' = [rng EXCEPT ![r] = Advance(@, n_records)]
  /\ rnglog' = [rnglog EXCEPT ![r] = Append(@, "choice:patient_id")]
  /\ pc' = [pc EXCEPT ![r] = Following("patient_id")]
  /\ UNCHANGED << seed, n_records, df, handle, cursor, exists, file, stdout, fault >>

\* line 14: the 'glucose_level' entry
DrawGlucose(r) ==
  /\ r \in Runs
  /\ pc[r] = "glucose_level"
  /\ data' = [data EXCEPT ![r] =
                Append(@, [key |-> "glucose_level", kind |-> "float",
                           values |-> GlucoseColumn(rng[r], n_records)])]
  /\ rng' = [rng EXCEPT ![r] = Advance(@, n_records)]
  /\ rnglog' = [rnglog EXCEPT ![r] = Append(@, "normal:glucose_level")]
  /\ pc' = [pc EXCEPT ![r] = Following("glucose_level")]
  /\ UNCHANGED << seed, n_records, df, handle, cursor, exists, file, stdout, fault >>

\* line 15: the 'meal_context' entry
DrawMeal(r) ==
  /\ r \in Runs
  /\ pc[r] = "meal_context"
  /\ data' = [data EXCEPT ![r] =
                Append(@, [key |-> "meal_context", kind |-> "str",
                           values |-> MealColumn(rng[r], n_records)])]
  /\ rng' = [rng EXCEPT ![r] = Advance(@, n_records)]
  /\ rnglog' = [rnglog EXCEPT ![r] = Append(@, "choice:meal_context")]
  /\ pc' = [pc EXCEPT ![r] = Following("meal_context")]
  /\ UNCHANGED << seed, n_records, df, handle, cursor, exists, file, stdout, fault >>

\* line 18: df = pd.DataFrame(data)
Assemble(r) ==
  /\ r \in Runs
  /\ pc[r] = "DataFrame"
  /\ df' = [df EXCEPT ![r] = DataFrame(data[r])]
  /\ pc' = [pc EXCEPT ![r] = Following("DataFrame")]
  /\ UNCHANGED << seed, n_records, rng, rnglog, data, handle, cursor, exists, file, stdout, fault >>

\* line 21, to_csv opens the path for writing: the file is created or
\* truncated.
ToCsvOpen(r) ==
  /\ r \in Runs
  /\ pc[r] = "to_csv"
  /\ handle[r] = "closed"
  /\ handle' = [handle EXCEPT ![r] = "open"]
  /\ cursor' = [cursor EXCEPT ![r] = 0]
  /\ exists' = [exists EXCEPT ![r] = TRUE]
  /\ file' = [file EXCEPT ![r] = ""]
  /\ UNCHANGED << seed, n_records, pc, rng, rnglog, data, df, stdout, fault >>

\* line 21, the path cannot be opened (not writable, invalid): OSError
\* propagates out of the module body; nothing catches it.
ToCsvOpenFails(r) ==
  /\ r \in Runs
  /\ pc[r] = "to_csv"
  /\ handle[r] = "closed"
  /\ fault' = [fault EXCEPT ![r] = "OSError"]
  /\ pc' = [pc EXCEPT ![r] = "aborted"]
  /\ UNCHANGED << seed, n_records, rng, rnglog, data, df, handle, cursor, exists, file, stdout >>

\* line 21, the handle flushes the next piece of the text to the file.
ToCsvWrite(r) ==
  /\ r \in Runs
  /\ pc[r] = "to_csv"
  /\ handle[r] = "open"
  /\ LET text == ToCsvText(df[r])
         upto == Min(cursor[r] + BUFFER_SIZE, Len(text))
     IN  /\ cursor[r] < Len(text)
         /\ file' = [file EXCEPT ![r] = @ \o SubSeq(text, cursor[r] + 1, upto)]
         /\ cursor' = [cursor EXCEPT ![r] = upto]
  /\ UNCHANGED << seed, n_records, pc, rng, rnglog, data, df, handle, exists, stdout, fault >>

\* A failed flush caught and ignored: the script goes on to the next
\* statement.
ToCsvWriteFailsIgnored(r) ==
  /\ r \in Runs
  /\ pc[r] = "to_csv"
  /\ handle[r] = "open"
  /\ handle' = [handle EXCEPT ![r] = "closed"]
  /\ fault' = [fault EXCEPT ![r] = "OSError"]
  /\ pc' = [pc EXCEPT ![r] = Following("to_csv")]
  /\ UNCHANGED << seed, n_records, rng, rnglog, data, df, cursor, exists, file, stdout >>

\* line 21, a flush fails (disk full): the handle is closed as the exception
\* unwinds, what reached the file stays, and the exception propagates.
ToCsvWriteFails(r) ==
  /\ r \in Runs
  /\ pc[r] = "to_csv"
  /\ handle[r] = "open"
  /\ cursor[r] < Len(ToCsvText(df[r]))
  /\ handle' = [handle EXCEPT ![r] = "closed"]
  /\ fault' = [fault EXCEPT ![r] = "OSError"]
  /\ pc' = [pc EXCEPT ![r] = "aborted"]
  /\ UNCHANGED << seed, n_records, rng, rnglog, data, df, cursor, exists, file, stdout >>

\* line 21, the whole text is in the file: to_csv closes the handle and
\* returns.
ToCsvClose(r) ==
  /\ r \in Runs
  /\ pc[r] = "to_csv"
  /\ handle[r] = "open"
  /\ cursor[r] = Len(ToCsvText(df[r]))
  /\ handle' = [handle EXCEPT ![r] = "closed"]
  /\ pc' = [pc EXCEPT ![r] = Following("to_csv")]
  /\ UNCHANGED << seed, n_records, rng, rnglog, data, df, cursor, exists, file, stdout, fault >>

\* line 22: print(...)
PrintNotice(r) ==
  /\ r \in Runs
  /\ pc[r] = "print"
  /\ stdout' = [stdout EXCEPT ![r] = @ \o NOTICE \o LINESEP]
  /\ pc' = [pc EXCEPT ![r] = Following("print")]
  /\ UNCHANGED << seed, n_records, rng, rnglog, data, df, handle, cursor, exists, file, fault >>

Next ==
  \E r \in RunIds :
    \/ Seed(r)
    \/ BuildTimestamp(r)
    \/ DrawPatient(r)
    \/ DrawGlucose(r)
    \/ DrawMeal(r)
    \/ Assemble(r)
    \/ ToCsvOpen(r)
    \/ ToCsvOpenFails(r)
    \/ ToCsvWrite(r)
    \/ ToCsvWriteFails(r)
    \/ ToCsvClose(r)
    \/ PrintNotice(r)

\* One run, of a small configuration or of the script's own.
Init == InitWith({1}, SmallConfigs \cup {ScriptConfig})

Spec == Init /\ [][Next]_vars

\* Two independent runs of one small configuration, each in its own
\* working directory.
InitTwoRuns == InitWith({1, 2}, SmallConfigs)

TwoRuns == InitTwoRuns /\ [][Next]_vars

(* ----------------------- reading text back ------------------------------ *)

\* The positions lo..hi of text s that hold character c, in order.
RECURSIVE Positions(_, _, _, _)
Positions(s, c, lo, hi) ==
  IF lo > hi THEN << >>
  ELSE IF lo = hi THEN (IF SubSeq(s, lo, lo) = c THEN << lo >> ELSE << >>)
  ELSE LET mid == (lo + hi) \div 2
       IN  Positions(s, c, lo, mid) \o Positions(s, c, mid + 1, hi)

\* The pieces of s between occurrences of c, and after the last one.
Split(s, c) ==
  LET at == Positions(s, c, 1, Len(s))
  IN  [j \in 1..(Len(at) + 1) |->
         SubSeq(s, (IF j = 1 THEN 1 ELSE at[j - 1] + 1),
                   (IF j = Len(at) + 1 THEN Len(s) ELSE at[j] - 1))]

\* The terminated lines of a text, without their terminators.
LinesOf(s) == LET parts == Split(s, LINESEP) IN SubSeq(parts, 1, Len(parts) - 1)

\* What follows the last line terminator of a text.
Unterminated(s) == LET parts == Split(s, LINESEP) IN parts[Len(parts)]

Contains(s, sub) ==
  \E i \in 1..(Len(s) - Len(sub) + 1) : SubSeq(s, i, i + Len(sub) - 1) = sub

Digits == {"0", "1", "2", "3", "4", "5", "6", "7", "8", "9"}

IsDigits(s) == Len(s) > 0 /\ \A i \in 1..Len(s) : SubSeq(s, i, i) \in Digits

\* A decimal number: an optional sign, digits, a point, digits.
IsDecimal(s) ==
  LET body  == IF Len(s) > 0 /\ SubSeq(s, 1, 1) = "-"
               THEN SubSeq(s, 2, Len(s)) ELSE s
      parts == Split(body, ".")
  IN  Len(parts) = 2 /\ IsDigits(parts[1]) /\ IsDigits(parts[2])

FractionDigits(s) == LET parts == Split(s, ".") IN Len(parts[Len(parts)])

LastChar(s) == SubSeq(s, Len(s), Len(s))

HasColumn(d, key) == \E i \in DOMAIN d : d[i].key = key

Column(d, key) == d[CHOOSE i \in DOMAIN d : d[i].key = key].values

Range(f) == {f[x] : x \in DOMAIN f}

RECURSIVE DaysBeforeMonth(_, _)
DaysBeforeMonth(y, m) ==
  IF m = 1 THEN 0 ELSE DaysBeforeMonth(y, m - 1) + DaysInMonth(y, m - 1)

RECURSIVE DaysBeforeYear(_)
DaysBeforeYear(y) ==
  IF y <= start_date.year THEN 0
  ELSE DaysBeforeYear(y - 1) + (IF IsLeap(y - 1) THEN 366 ELSE 365)

\* Minutes from the start of start_date's year to dt.
MinuteOrdinal(dt) ==
  (DaysBeforeYear(dt.year) + DaysBeforeMonth(dt.year, dt.month) + (dt.day - 1))
    * 1440 + dt.hour * 60 + dt.minute

Header == "timestamp,patient_id,glucose_level,meal_context"

\* The data lines of a run's file, each split into its fields.
DataRows(r) ==
  LET ls == LinesOf(file[r])
  IN  [j \in 1..(Len(ls) - 1) |-> Split(ls[j + 1], ",")]

Succeeded(r) == pc[r] = "exit"

(* ------------------------------ claims --------------------------------- *)

\* C1: a successful run leaves a file of exactly n_records + 1 lines, the
\* header line and then one line per reading; with n_records = 0 the file
\* is the header line alone.
C1_LineCount ==
  \A r \in Runs :
    Succeeded(r) =>
      LET ls == LinesOf(file[r])
      IN  /\ exists[r]
          /\ Unterminated(file[r]) = ""
          /\ Len(ls) = n_records + 1
          /\ ls[1] = Header
          /\ \A j \in 2..Len(ls) : ls[j] # Header
          /\ (n_records = 0 => file[r] = Header \o LINESEP)

C1_Witness ==
  \E r \in Runs :
    Succeeded(r) /\ n_records = 0 /\ file[r] = Header \o LINESEP

\* C2: row i (from 0) of the timestamp column is start_date + 30*i minutes,
\* so the column is strictly increasing in steps of 30 minutes.
C2_Timestamps ==
  \A r \in Runs :
    HasColumn(data[r], "timestamp") =>
      LET ts == Column(data[r], "timestamp")
      IN  /\ Len(ts) = n_records
          /\ \A i \in 0..(n_records - 1) :
               /\ MinuteOrdinal(ts[i + 1]) = MinuteOrdinal(start_date) + 30 * i
               /\ ts[i + 1].second = start_date.second
          /\ \A i \in 1..(n_records - 1) :
               MinuteOrdinal(ts[i + 1]) - MinuteOrdinal(ts[i]) = 30
          /\ (df[r] # NoFrame => df[r].columns[1].values = ts)

C2_Witness ==
  \E r \in Runs :
    /\ n_records = N_RECORDS
    /\ HasColumn(data[r], "timestamp")
    /\ Column(data[r], "timestamp")[N_RECORDS].day > start_date.day

\* C3: two runs of one configuration (seed, n_records) that both succeed
\* leave byte-identical files.
C3_Reproducible ==
  \A r1 \in Runs : \A r2 \in Runs :
    (Succeeded(r1) /\ Succeeded(r2)) => file[r1] = file[r2]

C3_Witness ==
  /\ Runs = {1, 2}
  /\ Succeeded(1) /\ Succeeded(2)
  /\ n_records = MaxRecords
  /\ Len(LinesOf(file[1])) = MaxRecords + 1

\* C4: every patient_id is one of P001, P002, P003 and every meal_context is
\* one of Fasting, Post-prandial, Before sleep, in the generated columns and
\* in the rows written.
C4_Labels ==
  \A r \in Runs :
    /\ HasColumn(data[r], "patient_id") =>
         Range(Column(data[r], "patient_id")) \subseteq {"P001", "P002", "P003"}
    /\ HasColumn(data[r], "meal_context") =>
         Range(Column(data[r], "meal_context"))
           \subseteq {"Fasting", "Post-prandial", "Before sleep"}
    /\ Succeeded(r) =>
         LET rows == DataRows(r)
         IN  \A j \in 1..n_records :
               /\ rows[j][2] \in {"P001", "P002", "P003"}
               /\ rows[j][4] \in {"Fasting", "Post-prandial", "Before sleep"}

C4_Witness ==
  \E r \in Runs :
    /\ Succeeded(r)
    /\ Range(Column(data[r], "patient_id")) = {"P001", "P002", "P003"}
    /\ Range(Column(data[r], "meal_context"))
         = {"Fasting", "Post-prandial", "Before sleep"}

\* C5: the first line is the header timestamp,patient_id,glucose_level,
\* meal_context; every data line has exactly these four fields in this order,
\* no row index among them, and data line i carries element i of each of the
\* four generated columns.
C5_Layout ==
  \A r \in Runs :
    Succeeded(r) =>
      LET ls   == LinesOf(file[r])
          rows == DataRows(r)
          ts   == Column(data[r], "timestamp")
          pid  == Column(data[r], "patient_id")
          glu  == Column(data[r], "glucose_level")
          meal == Column(data[r], "meal_context")
      IN  /\ ls[1] = "timestamp,patient_id,glucose_level,meal_context"
          /\ Len(rows) = n_records
          /\ \A j \in 1..n_records :
               /\ Len(rows[j]) = 4
               /\ rows[j][1] = FormatDatetime(ts[j], IsDatesOnly(ts))
               /\ rows[j][2] = pid[j]
               /\ rows[j][3] = FormatFloat(glu[j])
               /\ rows[j][4] = meal[j]

C5_Witness ==
  \E r \in Runs :
    /\ Succeeded(r)
    /\ n_records = MaxRecords
    /\ Len(DataRows(r)) = MaxRecords
    /\ DataRows(r)[MaxRecords][2] = Column(data[r], "patient_id")[MaxRecords]

\* C6: a successful run writes exactly one line to standard output, a notice
\* naming glucose_data.csv, and standard output stays empty until the file
\* holds the whole text and its handle is closed.
C6_NoticeAfterWrite ==
  \A r \in Runs :
    /\ stdout[r] # "" =>
         /\ Succeeded(r)
         /\ handle[r] = "closed"
         /\ exists[r]
         /\ file[r] = ToCsvText(df[r])
    /\ Succeeded(r) =>
         /\ Len(LinesOf(stdout[r])) = 1
         /\ Unterminated(stdout[r]) = ""
         /\ Contains(LinesOf(stdout[r])[1], "glucose_data.csv")

C6_Witness ==
  \E r \in Runs :
    /\ Succeeded(r)
    /\ n_records > 0
    /\ Contains(stdout[r], CSV_PATH)
    /\ file[r] = ToCsvText(df[r])

\* C7, as claimed: every glucose_level field is a decimal number with
\* exactly two fraction digits.
C7_ExactlyTwoDigits ==
  \A r \in Runs :
    Succeeded(r) =>
      LET rows == DataRows(r)
      IN  \A j \in 1..n_records :
            IsDecimal(rows[j][3]) /\ FractionDigits(rows[j][3]) = 2

\* C7, amended: every glucose_level field is a decimal number with one or
\* two fraction digits, the value rounded to two decimals and written in its
\* shortest form, so that a second fraction digit is never 0.
C7_AtMostTwoDigits ==
  \A r \in Runs :
    Succeeded(r) =>
      LET rows == DataRows(r)
      IN  \A j \in 1..n_records :
            /\ IsDecimal(rows[j][3])
            /\ FractionDigits(rows[j][3]) \in {1, 2}
            /\ FractionDigits(rows[j][3]) = 2 => LastChar(rows[j][3]) # "0"

C7_Witness ==
  \E r \in Runs :
    /\ Succeeded(r)
    /\ \E j \in 1..n_records : FractionDigits(DataRows(r)[j][3]) = 1
    /\ \E j \in 1..n_records : FractionDigits(DataRows(r)[j][3]) = 2

\* C8, as claimed: with seed 42 and n_records = 1000 the timestamp field of
\* row 0 is 2026-01-01T00:00:00 and of row 1 is 2026-01-01T00:30:00, and the
\* file has 1001 lines.
C8_JoinedByT ==
  \A r \in Runs :
    (Succeeded(r) /\ seed = 42 /\ n_records = 1000) =>
      LET rows == DataRows(r)
      IN  /\ rows[1][1] = "2026-01-01T00:00:00"
          /\ rows[2][1] = "2026-01-01T00:30:00"
          /\ Len(LinesOf(file[r])) = 1001

\* C8, amended: with seed 42 and n_records = 1000 the timestamp field of
\* row 0 is "2026-01-01 00:00:00" and of row 1 is "2026-01-01 00:30:00",
\* date and time joined by one space, and the file has 1001 lines.
C8_JoinedBySpace ==
  \A r \in Runs :
    (Succeeded(r) /\ seed = 42 /\ n_records = 1000) =>
      LET rows == DataRows(r)
      IN  /\ rows[1][1] = "2026-01-01 00:00:00"
          /\ rows[2][1] = "2026-01-01 00:30:00"
          /\ Len(LinesOf(file[r])) = 1001

C8_Witness ==
  \E r \in Runs :
    /\ Succeeded(r) /\ seed = 42 /\ n_records = 1000
    /\ Len(DataRows(r)) = 1000

\* C9: once writing the file has failed the run is aborted and stays so:
\* the handle is closed and nothing is written again, the file keeps what
\* had reached it (no cleanup), and standard output stays empty.
C9_AbortOnWriteFailure ==
  /\ [](\A r \in Runs :
          fault[r] # "none" =>
            pc[r] = "aborted" /\ handle[r] = "closed" /\ stdout[r] = "")
  /\ [][\A r \in Runs :
          fault'[r] # "none" =>
            /\ file'[r] = file[r]
            /\ exists'[r] = exists[r]
            /\ cursor'[r] = cursor[r]
            /\ stdout'[r] = stdout[r]]_vars

C9_Witness ==
  \E r \in Runs :
    /\ fault[r] = "OSError"
    /\ pc[r] = "aborted"
    /\ exists[r]
    /\ cursor[r] > 0
    /\ file[r] = SubSeq(ToCsvText(df[r]), 1, cursor[r])
    /\ Len(file[r]) < Len(ToCsvText(df[r]))

IsPrefix(a, b) == Len(a) <= Len(b) /\ a = SubSeq(b, 1, Len(a))

\* C10: the generator is seeded before any draw and the draws come in the
\* order patient_id, glucose_level, meal_context; the table is assembled
\* from all four columns of n_records rows each; the file is not touched
\* before the table is assembled, nor standard output before the file is
\* written.
C10_Sequential ==
  \A r \in Runs :
    /\ IsPrefix(rnglog[r],
                << "seed", "choice:patient_id", "normal:glucose_level",
                   "choice:meal_context" >>)
    /\ IsPrefix([c \in DOMAIN data[r] |-> data[r][c].key],
                << "timestamp", "patient_id", "glucose_level", "meal_context" >>)
    /\ pc[r] = "seed" => rnglog[r] = << >> /\ data[r] = << >>
    /\ df[r] # NoFrame =>
         /\ Len(data[r]) = 4
         /\ Len(rnglog[r]) = 4
         /\ \A c \in 1..4 : Len(data[r][c].values) = n_records
         /\ df[r] = DataFrame(data[r])
    /\ df[r] = NoFrame =>
         /\ handle[r] = "closed" /\ cursor[r] = 0
         /\ file[r] = (IF exists[r] THEN Stale ELSE "")
    /\ stdout[r] # "" => cursor[r] = Len(ToCsvText(df[r])) /\ df[r] # NoFrame

C10_Witness ==
  \E r \in Runs :
    /\ Succeeded(r)
    /\ n_records = MaxRecords
    /\ Len(rnglog[r]) = 4
    /\ stdout[r] # ""

====
